---- MODULE Spec2Model ----
(***************************************************************************)
(* Model of the two-stage phage-to-host depth pipeline:                    *)
(*   stage 1  3_get_MG_phage_counts.py  (region aggregation, host median)  *)
(*   stage 2  4_calculate_PtoH.py       (ratio, Quality, Activity)         *)
(*                                                                         *)
(* Strings are sequences of one-character strings, so that split() and     *)
(* int() are computed character by character.  Numbers that the scripts    *)
(* hold as floats are exact rationals <<n, d>> with d > 0 in lowest terms; *)
(* the IEEE results of a division by zero (inf, -inf, nan) are kept as     *)
(* separate kinds of value.                                                *)
(***************************************************************************)
EXTENDS Integers, Sequences, FiniteSets, TLC

\* ------------------------------------------------------------------ bounds
MaxObs == 2
MaxGenes == 2
MaxRows == 2

\* ------------------------------------------------------------- characters
Digits == {"0", "1", "2", "3", "4", "5", "6", "7", "8", "9"}

DigitVal ==
  ("0" :> 0) @@ ("1" :> 1) @@ ("2" :> 2) @@ ("3" :> 3) @@ ("4" :> 4) @@
  ("5" :> 5) @@ ("6" :> 6) @@ ("7" :> 7) @@ ("8" :> 8) @@ ("9" :> 9)

\* str.split(sep): the pieces between the occurrences of sep, at least one.
RECURSIVE SplitFrom(_, _, _, _)
SplitFrom(s, sep, i, cur) ==
  IF i > Len(s) THEN <<cur>>
  ELSE IF s[i] = sep THEN <<cur>> \o SplitFrom(s, sep, i + 1, <<>>)
  ELSE SplitFrom(s, sep, i + 1, Append(cur, s[i]))

Split(s, sep) == SplitFrom(s, sep, 1, <<>>)

\* int(s) for the characters the inputs are drawn from: a non-empty run of
\* decimal digits converts, anything else raises ValueError.
IsInt(s) == Len(s) > 0 /\ \A i \in 1..Len(s) : s[i] \in Digits

RECURSIVE IntVal(_)
IntVal(s) ==
  IF Len(s) = 0 THEN 0
  ELSE 10 * IntVal(SubSeq(s, 1, Len(s) - 1)) + DigitVal[s[Len(s)]]

ParseRange_Lenient(pos) ==
  LET parts == Split(pos, "-")
  IN IF Len(parts) >= 2 /\ IsInt(parts[1]) /\ IsInt(parts[2])
     THEN [ok |-> TRUE, st |-> IntVal(parts[1]), sp |-> IntVal(parts[2])]
     ELSE [ok |-> FALSE, st |-> 0, sp |-> 0]

\* st, sp = map(int, pos.split('-')) inside try/except ValueError.
ParseRange(pos) ==
  LET parts == Split(pos, "-")
  IN IF Len(parts) = 2 /\ IsInt(parts[1]) /\ IsInt(parts[2])
     THEN [ok |-> TRUE, st |-> IntVal(parts[1]), sp |-> IntVal(parts[2])]
     ELSE [ok |-> FALSE, st |-> 0, sp |-> 0]

\* -------------------------------------------------------------- rationals
Abs(n) == IF n < 0 THEN 0 - n ELSE n

RECURSIVE GCD(_, _)
GCD(a, b) == IF b = 0 THEN a ELSE GCD(b, a % b)

\* n / d for d > 0, in lowest terms.
Rat(n, d) == LET g == GCD(Abs(n), d) IN <<n \div g, d \div g>>

FromInt(n) == <<n, 1>>
Zero == <<0, 1>>

RatLT(a, b) == a[1] * b[2] < b[1] * a[2]
RatLE(a, b) == a[1] * b[2] <= b[1] * a[2]
RatAdd(a, b) == Rat(a[1] * b[2] + b[1] * a[2], a[2] * b[2])
RatMulInt(a, k) == Rat(a[1] * k, a[2])
RatHalf(a) == Rat(a[1], 2 * a[2])

\* a float value: an ordinary number, or what IEEE division by zero gives
Num(r) == [kind |-> "num", val |-> r]
Inf == [kind |-> "inf", val |-> Zero]
NegInf == [kind |-> "-inf", val |-> Zero]
NaN == [kind |-> "nan", val |-> Zero]

\* Series / Series on float64 columns: x/0 is inf, -inf or nan, no exception.
FloatDiv(a, b) ==
  IF b[1] = 0
  THEN IF a[1] > 0 THEN Inf ELSE IF a[1] < 0 THEN NegInf ELSE NaN
  ELSE IF b[1] > 0 THEN Num(Rat(a[1] * b[2], a[2] * b[1]))
  ELSE Num(Rat((0 - a[1]) * b[2], a[2] * (0 - b[1])))

\* comparisons of a float with a rational; every comparison with nan is False
FloatGE(x, r) == x.kind = "inf" \/ (x.kind = "num" /\ RatLE(r, x.val))
FloatLT(x, r) == x.kind = "-inf" \/ (x.kind = "num" /\ RatLT(x.val, r))

\* ----------------------------------------------------------------- median
\* Series.sum() of a sequence of rationals; 0 for the empty one.
RECURSIVE SumSeq(_)
SumSeq(s) == IF Len(s) = 0 THEN Zero ELSE RatAdd(s[1], SumSeq(Tail(s)))

RECURSIVE Insert(_, _)
Insert(x, s) ==
  IF Len(s) = 0 THEN <<x>>
  ELSE IF RatLE(x, s[1]) THEN <<x>> \o s
  ELSE <<s[1]>> \o Insert(x, Tail(s))

RECURSIVE SortAsc(_)
SortAsc(s) == IF Len(s) = 0 THEN <<>> ELSE Insert(s[1], SortAsc(Tail(s)))

Median_LowerMiddle(s) ==
  LET t == SortAsc(s)
  IN t[(Len(t) + 1) \div 2]

\* Series.median() of a non-empty sequence of rationals.
Median(s) ==
  LET t == SortAsc(s)
      n == Len(t)
  IN IF n % 2 = 1 THEN t[(n + 1) \div 2]
     ELSE RatHalf(RatAdd(t[n \div 2], t[n \div 2 + 1]))

\* ----------------------------------------------------------------- inputs
chrA == <<"a">>
chrB == <<"b">>

\* rows of sample.depth as text: chromosome, position, depth
DepthRows ==
  { [chromosome |-> chrA, position |-> <<"1">>, depth |-> <<"1", "5">>],
    [chromosome |-> chrA, position |-> <<"2">>, depth |-> <<"1", "0">>],
    [chromosome |-> chrB, position |-> <<"1">>, depth |-> <<"1", "0">>],
    [chromosome |-> chrA, position |-> <<"x">>, depth |-> <<"1", "0">>] }

\* rows of gene_annotation.tsv: "Gene Id", "Start Position", "Stop Position"
GeneRows ==
  { [gid |-> <<"a", "_", "1">>, start |-> 2, stop |-> 2],
    [gid |-> <<"a", "_", "2", "_", "1">>, start |-> 1, stop |-> 2],
    [gid |-> <<"b">>, start |-> 1, stop |-> 2],
    [gid |-> <<"a", "_", "3">>, start |-> 2, stop |-> 1] }

\* rows of phage_info.txt: srr, host_genome, chromosome, positions, phage_ids
PhageRows ==
  { [srr |-> <<"S">>, host_genome |-> <<"E">>, chromosome |-> chrA,
     positions |-> <<"1", "-", "1", ",", "2", "-", "1", "-", "1", ",",
                     "1", "-", "2", ",", "2", "-", "1">>,
     phage_ids |-> <<"p", ",", "q", ",", "r", ",", "s">>],
    [srr |-> <<"T">>, host_genome |-> <<"K">>, chromosome |-> chrA,
     positions |-> <<"x", ",", "-", "1", ",", "1", "-">>,
     phage_ids |-> <<"u", ",", "v">>] }

SeqsUpTo(S, n) == UNION { [1..k -> S] : k \in 0..n }

\* tables whose rows are pairwise different (gene ids are unique, and so are
\* the rows of phage_info.txt)
DistinctSeqsUpTo(S, n) ==
  { s \in SeqsUpTo(S, n) : \A i, j \in 1..Len(s) : i # j => s[i] # s[j] }

\* ------------------------------------------------------------------ state
VARIABLES
  phage_info_file,  \* input file of stage 1
  gene_file,        \* input file of stage 1
  depth_file,       \* input file of stage 1
  pc,               \* position of stage 1
  phage_df, depth_df, gene_df,
  gene_stats, phage_stats,
  gi,               \* index of the gene row the gene loop is at
  pri, zi,          \* phage row and zip index the phage loop is at
  median_total,
  gene_out, phage_out, host_out,   \* the three files of result_dir
  pc2,              \* position of stage 2
  phage_df2,        \* phage_df of stage 2
  ptoh_out          \* PtoH.tsv

vars ==
  <<phage_info_file, gene_file, depth_file, pc, phage_df, depth_df, gene_df,
    gene_stats, phage_stats, gi, pri, zi, median_total, gene_out, phage_out,
    host_out, pc2, phage_df2, ptoh_out>>

inputs == <<phage_info_file, gene_file, depth_file>>
stage1 ==
  <<pc, phage_df, depth_df, gene_df, gene_stats, phage_stats, gi, pri, zi,
    median_total, gene_out, phage_out, host_out>>
stage2 == <<pc2, phage_df2, ptoh_out>>

\* a file that was not written yet, and a written one
Absent == [exists |-> FALSE, rows |-> <<>>]
File(rows) == [exists |-> TRUE, rows |-> rows]

Init ==
  /\ phage_info_file \in DistinctSeqsUpTo(PhageRows, MaxRows)
  /\ gene_file \in DistinctSeqsUpTo(GeneRows, MaxGenes)
  /\ depth_file \in SeqsUpTo(DepthRows, MaxObs)
  /\ pc = "read"
  /\ phage_df = <<>>
  /\ depth_df = <<>>
  /\ gene_df = <<>>
  /\ gene_stats = <<>>
  /\ phage_stats = <<>>
  /\ gi = 1
  /\ pri = 1
  /\ zi = 1
  /\ median_total = Zero
  /\ gene_out = Absent
  /\ phage_out = Absent
  /\ host_out = Absent
  /\ pc2 = "start"
  /\ phage_df2 = <<>>
  /\ ptoh_out = Absent

\* ---------------------------------------------------------------- stage 1
RECURSIVE SelectRows(_, _)
SelectRows(s, keep) ==
  IF Len(s) = 0 THEN <<>>
  ELSE IF keep[1] THEN <<s[1]>> \o SelectRows(Tail(s), Tail(keep))
  ELSE SelectRows(Tail(s), Tail(keep))

\* load_depth: rows whose position or depth is not numeric are dropped
load_depth(rows) ==
  LET keep == [i \in 1..Len(rows) |->
                 IsInt(rows[i].position) /\ IsInt(rows[i].depth)]
      kept == SelectRows(rows, keep)
  IN [i \in 1..Len(kept) |->
        [chromosome |-> kept[i].chromosome,
         position |-> IntVal(kept[i].position),
         depth |-> IntVal(kept[i].depth)]]

\* depth_df[(chromosome == chrom) & (position >= start) & (position <= stop)]
InSegment_OpenStop(row, chrom, start, stop) ==
  /\ row.chromosome = chrom
  /\ row.position >= start
  /\ row.position < stop

InSegment(row, chrom, start, stop) ==
  /\ row.chromosome = chrom
  /\ row.position >= start
  /\ row.position <= stop

Segment(df, chrom, start, stop) ==
  SelectRows(df, [i \in 1..Len(df) |-> InSegment(df[i], chrom, start, stop)])

DepthColumn(seg) == [i \in 1..Len(seg) |-> FromInt(seg[i].depth)]

PerCounts_NoGuard(tot, length) ==
  IF length > 1 THEN Rat(tot[1], tot[2] * length) ELSE Zero

\* per = tot/length if length>0 else 0
PerCounts(tot, length) ==
  IF length > 0 THEN Rat(tot[1], tot[2] * length) ELSE Zero

\* med = seg['depth'].median() if not seg.empty else 0
MedianDepth(seg) == IF Len(seg) > 0 THEN Median(DepthColumn(seg)) ELSE Zero

\* tot, length, per and med of one region
RegionStats(df, chrom, start, stop) ==
  LET seg == Segment(df, chrom, start, stop)
      tot == SumSeq(DepthColumn(seg))
      length == stop - start + 1
  IN [Total_Counts |-> tot,
      Per_Counts |-> PerCounts(tot, length),
      Median_Depth |-> MedianDepth(seg),
      Region_Length |-> length]

\* lines 25-44: the three inputs are read
ReadInputs ==
  /\ pc = "read"
  /\ Len(phage_info_file) > 0
  /\ phage_df' = phage_info_file
  /\ depth_df' = load_depth(depth_file)
  /\ gene_df' = gene_file
  /\ pc' = "genes"
  /\ UNCHANGED <<inputs, gene_stats, phage_stats, gi, pri, zi, median_total,
                 gene_out, phage_out, host_out, stage2>>

\* line 25 on a phage_info.txt without rows: read_csv raises EmptyDataError
\* (phage_df.iloc[0] of line 115 could not succeed on such a table either)
ReadInputsEmpty ==
  /\ pc = "read"
  /\ Len(phage_info_file) = 0
  /\ pc' = "error"
  /\ UNCHANGED <<inputs, phage_df, depth_df, gene_df, gene_stats, phage_stats,
                 gi, pri, zi, median_total, gene_out, phage_out, host_out,
                 stage2>>

\* chrom = gid.split('_')[0]
GeneChrom(gid) == Split(gid, "_")[1]

GeneLoopDone_AfterFirst == gi > Len(gene_df) \/ gi > 1

GeneLoopDone == gi > Len(gene_df)

\* lines 50-70: one iteration of the gene loop
GeneStep ==
  /\ pc = "genes"
  /\ ~GeneLoopDone
  /\ LET gr == gene_df[gi]
         st == RegionStats(depth_df, GeneChrom(gr.gid), gr.start, gr.stop)
     IN gene_stats' = Append(gene_stats,
          [Gene_Id |-> gr.gid,
           Total_Counts |-> st.Total_Counts,
           Per_Counts |-> st.Per_Counts,
           Median_Depth |-> st.Median_Depth,
           Region_Length |-> st.Region_Length])
  /\ gi' = gi + 1
  /\ UNCHANGED <<inputs, pc, phage_df, depth_df, gene_df, phage_stats, pri, zi,
                 median_total, gene_out, phage_out, host_out, stage2>>

GeneLoopExit ==
  /\ pc = "genes"
  /\ GeneLoopDone
  /\ pc' = "phages"
  /\ UNCHANGED <<inputs, phage_df, depth_df, gene_df, gene_stats, phage_stats,
                 gi, pri, zi, median_total, gene_out, phage_out, host_out,
                 stage2>>

Min(a, b) == IF a < b THEN a ELSE b

\* pos_list and id_list of a phage_info row
PosList(pr) == Split(pr.positions, ",")
IdList(pr) == Split(pr.phage_ids, ",")

\* number of (pid, pos) pairs zip() yields for a row
ZipLen(pr) == Min(Len(IdList(pr)), Len(PosList(pr)))

PhageLoopDone == pri > Len(phage_df)

\* the loop position after the pair (pri, zi): the next pair of the row, or
\* the first pair of the next row (split() never returns an empty list)
NextPri == IF zi < ZipLen(phage_df[pri]) THEN pri ELSE pri + 1
NextZi == IF zi < ZipLen(phage_df[pri]) THEN zi + 1 ELSE 1

\* lines 77-100: a pair whose range parses is aggregated and appended
PhageStep ==
  /\ pc = "phages"
  /\ ~PhageLoopDone
  /\ LET pr == phage_df[pri]
         pid == IdList(pr)[zi]
         rng == ParseRange(PosList(pr)[zi])
         st == RegionStats(depth_df, pr.chromosome, rng.st, rng.sp)
     IN /\ rng.ok
        /\ phage_stats' = Append(phage_stats,
             [Phage_Id |-> pid,
              Chromosome |-> pr.chromosome,
              Start |-> rng.st,
              Stop |-> rng.sp,
              Total_Counts |-> st.Total_Counts,
              Per_Counts |-> st.Per_Counts,
              Median_Depth |-> st.Median_Depth,
              Region_Length |-> st.Region_Length])
  /\ pri' = NextPri
  /\ zi' = NextZi
  /\ UNCHANGED <<inputs, pc, phage_df, depth_df, gene_df, gene_stats, gi,
                 median_total, gene_out, phage_out, host_out, stage2>>

\* lines 78-81: except ValueError: continue
PhageSkip ==
  /\ pc = "phages"
  /\ ~PhageLoopDone
  /\ ~ParseRange(PosList(phage_df[pri])[zi]).ok
  /\ pri' = NextPri
  /\ zi' = NextZi
  /\ UNCHANGED <<inputs, pc, phage_df, depth_df, gene_df, gene_stats,
                 phage_stats, gi, median_total, gene_out, phage_out, host_out,
                 stage2>>

PhageLoopExit ==
  /\ pc = "phages"
  /\ PhageLoopDone
  /\ pc' = "write"
  /\ UNCHANGED <<inputs, phage_df, depth_df, gene_df, gene_stats, phage_stats,
                 gi, pri, zi, median_total, gene_out, phage_out, host_out,
                 stage2>>

\* lines 103-107: marker_gene_counts.tsv and phage_counts.tsv are written
WriteCounts ==
  /\ pc = "write"
  /\ gene_out' = File(gene_stats)
  /\ phage_out' = File(phage_stats)
  /\ pc' = "median"
  /\ UNCHANGED <<inputs, phage_df, depth_df, gene_df, gene_stats, phage_stats,
                 gi, pri, zi, median_total, host_out, stage2>>

HostMedianColumn_Total(gs) == [i \in 1..Len(gs) |-> gs[i].Total_Counts]

\* gene_df_out['Per_Counts']
HostMedianColumn(gs) == [i \in 1..Len(gs) |-> gs[i].Per_Counts]

\* lines 111-112: median of the Per_Counts column
HostMedian ==
  /\ pc = "median"
  /\ Len(gene_stats) > 0
  /\ median_total' = Median(HostMedianColumn(gene_stats))
  /\ pc' = "host"
  /\ UNCHANGED <<inputs, phage_df, depth_df, gene_df, gene_stats, phage_stats,
                 gi, pri, zi, gene_out, phage_out, host_out, stage2>>

\* line 112 with no gene: DataFrame([]) has no column Per_Counts, KeyError
HostMedianNoGenes ==
  /\ pc = "median"
  /\ Len(gene_stats) = 0
  /\ pc' = "error"
  /\ UNCHANGED <<inputs, phage_df, depth_df, gene_df, gene_stats, phage_stats,
                 gi, pri, zi, median_total, gene_out, phage_out, host_out,
                 stage2>>

\* host and srr of phage_df.iloc[0]; sample_id = f"{host}--{srr}"
SampleId(df) == df[1].host_genome \o <<"-", "-">> \o df[1].srr

\* lines 115-125: host_counts.tsv is written with its one row
WriteHost ==
  /\ pc = "host"
  /\ host_out' = File(<<[Sample_ID |-> SampleId(phage_df),
                         Median_of_MG |-> median_total]>>)
  /\ pc' = "done"
  /\ UNCHANGED <<inputs, phage_df, depth_df, gene_df, gene_stats, phage_stats,
                 gi, pri, zi, median_total, gene_out, phage_out, stage2>>

\* ---------------------------------------------------------------- stage 2
Ten == FromInt(10)
One == FromInt(1)
OneAndHalf == <<3, 2>>

Quality_Inclusive(per, mg) ==
  IF RatLE(per, Ten) \/ RatLE(mg, Ten) THEN "low" ELSE "high"

\* "low" if (Per_Counts < 10 or Median_of_MG < 10) else "high"
Quality(per, mg) ==
  IF RatLT(per, Ten) \/ RatLT(mg, Ten) THEN "low" ELSE "high"

Activity_StrictActive(x) ==
  IF ~FloatGE(x, OneAndHalf) \/ x = Num(OneAndHalf) THEN
    IF FloatLT(x, One) THEN "inactive" ELSE "low"
  ELSE "active"

\* "active" if x >= 1.5 else ("inactive" if x < 1 else "low")
Activity(x) ==
  IF FloatGE(x, OneAndHalf) THEN "active"
  ELSE IF FloatLT(x, One) THEN "inactive"
  ELSE "low"

\* lines 39-51: the columns added to one row of phage_df
Classify(r, sample_id, median_mg) ==
  LET ptoh == FloatDiv(r.Per_Counts, median_mg)
  IN [Sample_ID |-> sample_id,
      Phage_Id |-> r.Phage_Id,
      Chromosome |-> r.Chromosome,
      Start |-> r.Start,
      Stop |-> r.Stop,
      Total_Counts |-> r.Total_Counts,
      Per_Counts |-> r.Per_Counts,
      Median_Depth |-> r.Median_Depth,
      Region_Length |-> r.Region_Length,
      Median_of_MG |-> median_mg,
      PtoH |-> ptoh,
      Quality |-> Quality(r.Per_Counts, median_mg),
      Activity |-> Activity(ptoh)]

\* out_df = phage_df[cols]
OutRow(r) ==
  [Sample_ID |-> r.Sample_ID,
   Phage_Id |-> r.Phage_Id,
   Chromosome |-> r.Chromosome,
   Start |-> r.Start,
   Stop |-> r.Stop,
   Total_Counts |-> r.Total_Counts,
   Per_Counts |-> r.Per_Counts,
   Median_of_MG |-> r.Median_of_MG,
   PtoH |-> r.PtoH,
   Quality |-> r.Quality]

\* line 31: phage_counts.tsv is read
ReadPhageCounts ==
  /\ pc2 = "start"
  /\ phage_out.exists
  /\ Len(phage_out.rows) > 0
  /\ phage_df2' = phage_out.rows
  /\ pc2' = "classify"
  /\ UNCHANGED <<inputs, stage1, ptoh_out>>

\* line 31 before stage 1 wrote the file: FileNotFoundError
ReadPhageCountsMissing ==
  /\ pc2 = "start"
  /\ ~phage_out.exists
  /\ pc2' = "no_phage_file"
  /\ UNCHANGED <<inputs, stage1, phage_df2, ptoh_out>>

\* line 31 on the file DataFrame([]).to_csv wrote, which has no columns:
\* EmptyDataError
ReadPhageCountsEmpty ==
  /\ pc2 = "start"
  /\ phage_out.exists
  /\ Len(phage_out.rows) = 0
  /\ pc2' = "empty_phage_file"
  /\ UNCHANGED <<inputs, stage1, phage_df2, ptoh_out>>

\* lines 32-51: host_counts.tsv is read, its first row is joined to every
\* phage row, PtoH, Quality and Activity are computed
ClassifyRows ==
  /\ pc2 = "classify"
  /\ host_out.exists
  /\ LET sample_id == host_out.rows[1].Sample_ID
         median_mg == host_out.rows[1].Median_of_MG
     IN phage_df2' = [i \in 1..Len(phage_df2) |->
                        Classify(phage_df2[i], sample_id, median_mg)]
  /\ pc2' = "output"
  /\ UNCHANGED <<inputs, stage1, ptoh_out>>

\* line 32 before stage 1 wrote host_counts.tsv: FileNotFoundError
ReadHostMissing ==
  /\ pc2 = "classify"
  /\ ~host_out.exists
  /\ pc2' = "no_host_file"
  /\ UNCHANGED <<inputs, stage1, phage_df2, ptoh_out>>

\* lines 54-62: PtoH.tsv is written
WritePtoH ==
  /\ pc2 = "output"
  /\ ptoh_out' = File([i \in 1..Len(phage_df2) |-> OutRow(phage_df2[i])])
  /\ pc2' = "done"
  /\ UNCHANGED <<inputs, stage1, phage_df2>>

\* ---------------------------------------------------------- specification
Next ==
  \/ ReadInputs
  \/ ReadInputsEmpty
  \/ GeneStep
  \/ GeneLoopExit
  \/ PhageStep
  \/ PhageSkip
  \/ PhageLoopExit
  \/ WriteCounts
  \/ HostMedian
  \/ HostMedianNoGenes
  \/ WriteHost
  \/ ReadPhageCounts
  \/ ReadPhageCountsMissing
  \/ ReadPhageCountsEmpty
  \/ ClassifyRows
  \/ ReadHostMissing
  \/ WritePtoH

Spec == Init /\ [][Next]_vars

\* ------------------------------------------------- properties: stage 1
\* The chromosome of a gene: the characters of its id before the first '_'.
FirstUnderscore(gid) ==
  IF \E k \in 1..Len(gid) : gid[k] = "_"
  THEN CHOOSE k \in 1..Len(gid) :
         gid[k] = "_" /\ \A m \in 1..(k - 1) : gid[m] # "_"
  ELSE Len(gid) + 1

ChromOf(gid) == SubSeq(gid, 1, FirstUnderscore(gid) - 1)

\* The observations of a region, as indices of depth_df.
MatchIdx(chrom, start, stop) ==
  { k \in 1..Len(depth_df) :
      /\ depth_df[k].chromosome = chrom
      /\ start <= depth_df[k].position
      /\ depth_df[k].position <= stop }

RECURSIVE SumDepthOver(_)
SumDepthOver(I) ==
  IF I = {} THEN 0
  ELSE LET k == CHOOSE x \in I : TRUE
       IN depth_df[k].depth + SumDepthOver(I \ {k})

GeneIdx(i) ==
  MatchIdx(ChromOf(gene_df[i].gid), gene_df[i].start, gene_df[i].stop)

PhageIdx(j) ==
  MatchIdx(phage_stats[j].Chromosome, phage_stats[j].Start, phage_stats[j].Stop)

\* C1: in the gene loop and in the phage loop, Total_Counts of a region is the
\* sum of depth over exactly the observations on the region's chromosome whose
\* position p has start <= p <= stop, each row counted once (a multiset), and
\* it is 0 when no observation matches.
C1_TotalIsSumOfMatching ==
  /\ \A i \in 1..Len(gene_stats) :
       gene_stats[i].Total_Counts = FromInt(SumDepthOver(GeneIdx(i)))
  /\ \A j \in 1..Len(phage_stats) :
       phage_stats[j].Total_Counts = FromInt(SumDepthOver(PhageIdx(j)))

\* a gene region that matches one of the two observations and leaves the
\* other out, a phage region matching both rows, and a gene region on a
\* chromosome without observations
C1_Witness ==
  /\ \E i \in 1..Len(gene_stats) :
       /\ Cardinality(GeneIdx(i)) = 1
       /\ Len(depth_df) = 2
       /\ gene_stats[i].Total_Counts = FromInt(10)
  /\ \E j \in 1..Len(phage_stats) :
       /\ Cardinality(PhageIdx(j)) = 2
       /\ phage_stats[j].Total_Counts = FromInt(25)
  /\ \E i \in 1..Len(gene_stats) :
       /\ GeneIdx(i) = {}
       /\ gene_df[i].start <= gene_df[i].stop
       /\ gene_stats[i].Total_Counts = Zero

\* C2: Region_Length = stop - start + 1; Per_Counts * Region_Length =
\* Total_Counts when Region_Length > 0; Per_Counts = 0 when Region_Length <= 0,
\* and such a region is still a record of the table (every gene row the loop
\* has passed has its record).
C2_LengthAndPerBase ==
  /\ Len(gene_stats) = gi - 1
  /\ \A i \in 1..Len(gene_stats) :
       LET r == gene_stats[i]
       IN /\ r.Region_Length = gene_df[i].stop - gene_df[i].start + 1
          /\ r.Region_Length > 0 =>
               RatMulInt(r.Per_Counts, r.Region_Length) = r.Total_Counts
          /\ r.Region_Length <= 0 => r.Per_Counts = Zero
  /\ \A j \in 1..Len(phage_stats) :
       LET r == phage_stats[j]
       IN /\ r.Region_Length = r.Stop - r.Start + 1
          /\ r.Region_Length > 0 =>
               RatMulInt(r.Per_Counts, r.Region_Length) = r.Total_Counts
          /\ r.Region_Length <= 0 => r.Per_Counts = Zero

\* stage 1 finished with a gene and a phage region of length <= 0 in its
\* tables, next to regions of length 1 and 2 with a positive total
C2_Witness ==
  /\ pc = "done"
  /\ \E i \in 1..Len(gene_stats) : gene_stats[i].Region_Length <= 0
  /\ \E j \in 1..Len(phage_stats) : phage_stats[j].Region_Length <= 0
  /\ \E j \in 1..Len(phage_stats) :
       /\ phage_stats[j].Region_Length = 2
       /\ phage_stats[j].Total_Counts = FromInt(25)
  /\ \E j \in 1..Len(phage_stats) :
       /\ phage_stats[j].Region_Length = 1
       /\ phage_stats[j].Total_Counts = FromInt(15)

\* v is the r-th smallest depth among the observations I
IsOrderStat(v, I, r) ==
  /\ \E k \in I : depth_df[k].depth = v
  /\ Cardinality({ k \in I : depth_df[k].depth < v }) <= r - 1
  /\ Cardinality({ k \in I : depth_df[k].depth <= v }) >= r

IsMedianOf(m, I) ==
  LET n == Cardinality(I)
  IN IF n = 0 THEN m = Zero
     ELSE IF n % 2 = 1
     THEN \E k \in I : /\ IsOrderStat(depth_df[k].depth, I, (n + 1) \div 2)
                       /\ m = FromInt(depth_df[k].depth)
     ELSE \E k, l \in I :
            /\ IsOrderStat(depth_df[k].depth, I, n \div 2)
            /\ IsOrderStat(depth_df[l].depth, I, n \div 2 + 1)
            /\ m = Rat(depth_df[k].depth + depth_df[l].depth, 2)

Classified == IF pc2 \in {"output", "done"} THEN phage_df2 ELSE <<>>

\* C4: with Median_of_MG = 0 every PtoH is marked undefined, is never emitted
\* as 0 or as infinity, and no record gets one of the ordinary Activity labels.
C4_ZeroMedianIsMarked ==
  /\ \A i \in 1..Len(Classified) :
       Classified[i].Median_of_MG = Zero =>
         /\ Classified[i].PtoH.kind = "nan"
         /\ Classified[i].Activity \notin {"active", "inactive", "low"}
  /\ ptoh_out.exists =>
       \A i \in 1..Len(ptoh_out.rows) :
         ptoh_out.rows[i].Median_of_MG = Zero =>
           ptoh_out.rows[i].PtoH.kind = "nan"

\* C5: Quality is "low" exactly when Per_Counts < 10 or Median_of_MG < 10
\* (both strict) and "high" otherwise, so Per_Counts = 10 with
\* Median_of_MG >= 10 is "high"; PtoH plays no part.
C5_QualityThresholds ==
  /\ \A i \in 1..Len(Classified) :
       LET r == Classified[i]
           low == \/ r.Per_Counts[1] < 10 * r.Per_Counts[2]
                  \/ r.Median_of_MG[1] < 10 * r.Median_of_MG[2]
       IN /\ r.Quality \in {"low", "high"}
          /\ r.Quality = "low" <=> low
  /\ ptoh_out.exists =>
       \A i \in 1..Len(ptoh_out.rows) :
         ptoh_out.rows[i].Quality = phage_df2[i].Quality

\* PtoH.tsv holds a row with Per_Counts = 10 and Median_of_MG >= 10 rated
\* "high" next to a row rated "low"
C5_Witness ==
  /\ ptoh_out.exists
  /\ \E i \in 1..Len(ptoh_out.rows) :
       /\ ptoh_out.rows[i].Per_Counts = FromInt(10)
       /\ ptoh_out.rows[i].Median_of_MG = FromInt(20)
       /\ ptoh_out.rows[i].Quality = "high"
  /\ \E i \in 1..Len(ptoh_out.rows) : ptoh_out.rows[i].Quality = "low"

\* C6: for a defined PtoH, Activity is "active" iff PtoH >= 1.5, "inactive"
\* iff PtoH < 1 and "low" iff 1 <= PtoH < 1.5: one label each, no gap.
C6_ActivityPartition ==
  \A i \in 1..Len(Classified) :
    LET r == Classified[i]
        n == r.PtoH.val[1]
        d == r.PtoH.val[2]
    IN r.PtoH.kind = "num" =>
         /\ r.Activity \in {"active", "inactive", "low"}
         /\ r.Activity = "active" <=> 2 * n >= 3 * d
         /\ r.Activity = "inactive" <=> n < d
         /\ r.Activity = "low" <=> (d <= n /\ 2 * n < 3 * d)

\* rows with PtoH = 1.5 ("active"), PtoH = 1.25 ("low") and PtoH = 0
\* ("inactive") in one table
C6_Witness ==
  /\ \E i \in 1..Len(Classified) :
       Classified[i].PtoH = Num(<<3, 2>>) /\ Classified[i].Activity = "active"
  /\ \E i \in 1..Len(Classified) :
       Classified[i].PtoH = Num(<<5, 4>>) /\ Classified[i].Activity = "low"
  /\ \E i \in 1..Len(Classified) :
       Classified[i].PtoH = Num(Zero) /\ Classified[i].Activity = "inactive"

\* ------------------------------------------- properties: host statistic
\* the per-base mean of gene row i, from the inputs
GenePer(i) ==
  LET length == gene_df[i].stop - gene_df[i].start + 1
  IN IF length > 0 THEN Rat(SumDepthOver(GeneIdx(i)), length) ELSE Zero

\* v is the r-th smallest of the per-base means of all gene rows
IsGeneOrderStat(v, r) ==
  LET G == 1..Len(gene_df)
  IN /\ \E i \in G : GenePer(i) = v
     /\ Cardinality({ i \in G : RatLT(GenePer(i), v) }) <= r - 1
     /\ Cardinality({ i \in G : RatLE(GenePer(i), v) }) >= r

IsMedianOfGenes(m) ==
  LET n == Len(gene_df)
  IN /\ n > 0
     /\ IF n % 2 = 1 THEN IsGeneOrderStat(m, (n + 1) \div 2)
        ELSE \E i, j \in 1..n :
               /\ IsGeneOrderStat(GenePer(i), n \div 2)
               /\ IsGeneOrderStat(GenePer(j), n \div 2 + 1)
               /\ m = RatHalf(RatAdd(GenePer(i), GenePer(j)))

C8_HostBeforePtoH ==
  (Len(Classified) > 0 \/ ptoh_out.exists) =>
    /\ host_out.exists
    /\ Len(gene_stats) = Len(gene_file)
    /\ \A i \in 1..Len(Classified) :
         /\ IsMedianOfGenes(Classified[i].Median_of_MG)
         /\ Classified[i].Median_of_MG = host_out.rows[1].Median_of_MG
    /\ ptoh_out.exists =>
         \A i \in 1..Len(ptoh_out.rows) :
           IsMedianOfGenes(ptoh_out.rows[i].Median_of_MG)

\* PtoH.tsv written for a sample of two genes whose means differ
C8_Witness ==
  /\ ptoh_out.exists
  /\ Len(ptoh_out.rows) > 0
  /\ Len(gene_file) = 2
  /\ gene_stats[1].Per_Counts # gene_stats[2].Per_Counts

\* ------------------------------------------------ properties: aborting
Stage2Errors == {"no_phage_file", "no_host_file", "empty_phage_file"}

\* C9: a stage aborts exactly when required identity data is missing. Stage 1
\* ends in error, without a host record, when there is no gene interval or no
\* phage_info row, and only then; stage 2 ends in error without a PtoH record
\* when it has no host row; in every other case a stage runs to completion:
\* once the host row is written, stage 2 does not abort, whatever the ranges,
\* regions and intersections of the sample were.
C9_OnlyMissingIdentityAborts ==
  /\ [](/\ pc = "error" =>
            /\ Len(gene_file) = 0 \/ Len(phage_info_file) = 0
            /\ ~host_out.exists
        /\ pc = "done" => Len(gene_file) > 0 /\ Len(phage_info_file) > 0
        /\ pc2 \in Stage2Errors => ~ptoh_out.exists)
  /\ [][(host_out.exists /\ pc2 \notin Stage2Errors) =>
          pc2' \notin Stage2Errors]_vars

\* ------------------------------------------- properties: the phage loop
\* the indices of the separators of s, and the k-th piece between them
SepIdx(s, sep) == { i \in 1..Len(s) : s[i] = sep }

NthSep(s, sep, k) ==
  IF k = 0 THEN 0
  ELSE IF k > Cardinality(SepIdx(s, sep)) THEN Len(s) + 1
  ELSE CHOOSE i \in SepIdx(s, sep) :
         Cardinality({ j \in SepIdx(s, sep) : j < i }) = k - 1

Piece(s, sep, k) ==
  SubSeq(s, NthSep(s, sep, k - 1) + 1, NthSep(s, sep, k) - 1)

NumPieces(s, sep) == Cardinality(SepIdx(s, sep)) + 1

\* a range is well-formed when it is digits, one '-', digits
WellFormed(p) ==
  /\ Cardinality(SepIdx(p, "-")) = 1
  /\ \A i \in 1..Len(p) : p[i] \in Digits \/ p[i] = "-"
  /\ p[1] # "-"
  /\ p[Len(p)] # "-"

RECURSIVE Pow10(_)
Pow10(k) == IF k = 0 THEN 1 ELSE 10 * Pow10(k - 1)

RECURSIVE DecFrom(_, _)
DecFrom(s, i) ==
  IF i > Len(s) THEN 0
  ELSE DigitVal[s[i]] * Pow10(Len(s) - i) + DecFrom(s, i + 1)

\* the records the phage loop owes for rows r.. and pairs k.. of row r
RECURSIVE Owed(_, _)
Owed(r, k) ==
  IF r > Len(phage_info_file) THEN <<>>
  ELSE LET row == phage_info_file[r]
           n == Min(NumPieces(row.phage_ids, ","), NumPieces(row.positions, ","))
           p == Piece(row.positions, ",", k)
       IN IF k > n THEN Owed(r + 1, 1)
          ELSE IF WellFormed(p)
          THEN <<[Phage_Id |-> Piece(row.phage_ids, ",", k),
                  Chromosome |-> row.chromosome,
                  Start |-> DecFrom(Piece(p, "-", 1), 1),
                  Stop |-> DecFrom(Piece(p, "-", 2), 1)]>> \o Owed(r, k + 1)
          ELSE Owed(r, k + 1)

Identity(r) ==
  [Phage_Id |-> r.Phage_Id, Chromosome |-> r.Chromosome,
   Start |-> r.Start, Stop |-> r.Stop]

EmittedIdentities == [j \in 1..Len(phage_stats) |-> Identity(phage_stats[j])]

\* C10: a position entry that is not two integers around one '-' is skipped
\* and nothing else is affected: the loop never aborts, what it has emitted is
\* always a prefix of the well-formed (phage_id, range) pairs in input order,
\* and once it is over the phage table is exactly those pairs, each with its
\* own phage_id, its row's chromosome and its own start and stop.
C10_MalformedRangeSkipped ==
  LET owed == IF Len(phage_df) = 0 THEN <<>> ELSE Owed(1, 1)
  IN /\ Len(phage_stats) <= Len(owed)
     /\ EmittedIdentities = SubSeq(owed, 1, Len(phage_stats))
     /\ pc \in {"write", "median", "host", "done"} => Len(phage_stats) = Len(owed)
     /\ (pc = "error" /\ Len(phage_df) > 0) => Len(phage_stats) = Len(owed)
     /\ phage_out.exists =>
          [j \in 1..Len(phage_out.rows) |-> Identity(phage_out.rows[j])] = owed

\* the loop is over for a row whose second of four pairs is malformed (the
\* ids are p, q, r, s) followed by a row of malformed pairs only
C10_Witness ==
  /\ pc = "write"
  /\ Len(phage_df) = 2
  /\ Len(phage_stats) = 3
  /\ phage_stats[1].Phage_Id = <<"p">>
  /\ phage_stats[2].Phage_Id = <<"r">>
  /\ phage_stats[2].Start = 1
  /\ phage_stats[2].Stop = 2
  /\ phage_stats[3].Phage_Id = <<"s">>
  /\ phage_stats[3].Start = 2
  /\ phage_stats[3].Stop = 1

====
